---- MODULE Spec2Model ----
(***************************************************************************)
(* A model of two parts of mago:                                           *)
(*   - the lint command (src/src/commands/lint.rs): execute, lint_sources  *)
(*     and check_sources, with the tokio tasks they spawn;                 *)
(*   - parse_global (src/crates/parser/src/internal/global.rs).            *)
(* Spec is the lint command, SpecParse is the parser.                      *)
(***************************************************************************)
EXTENDS Integers, Sequences, FiniteSets, TLC

\* ------------------------------------------------------------------ bounds
\* the largest number of user-defined sources of a run
MaxSources == 2
\* the largest number of issues one producer (semantic checks, rule engine)
\* reports for one file
MaxIssues == 1
\* the largest number of tokens of an input of parse_global
MaxLen == 5

VARIABLES
    semantics_only,  \* command.semantics_only
    length,          \* sources.len(): the sources are 1..length in enumeration order
    pc,              \* the orchestrator's position in execute/lint_sources/check_sources
    codebase,        \* let mut codebase
    handles,         \* the Vec of JoinHandles not yet awaited (task ids)
    ptask,           \* the tasks of the scanning stage, by task id
    semantics,       \* let mut semantics (lint_sources)
    linter,          \* let linter
    ltask,           \* the tasks of the linting stage, by task id
    results,         \* let mut results
    issues,          \* let issues (execute)
    reported,        \* what the reporter was given
    ret,             \* what execute returned
    reflected,       \* history: the sources reflect() was called on
    merge_calls,     \* history: the sources whose fragment merge() was called with, in order
    populate_calls,  \* history: the number of calls of populate()
    linted,          \* history: the sources linter.lint() was called on
    overtaken,       \* history: a task finished while an earlier task of its stage ran
    tokens,          \* the kinds of the tokens of the stream of parse_global
    cursor,          \* the number of tokens the stream has consumed
    ppc,             \* the position in parse_global
    global,          \* the `global` keyword of the node
    variables,       \* let mut variables
    commas,          \* let mut commas
    parsed,          \* what parse_global returned
    calls            \* history: the calls parse_global made, in order

pipe_vars == <<semantics_only, length, pc, codebase, handles, ptask, semantics,
               linter, ltask, results, issues, reported, ret, reflected, merge_calls,
               populate_calls, linted, overtaken>>

parse_vars == <<tokens, cursor, ppc, global, variables, commas, parsed, calls>>

vars == <<pipe_vars, parse_vars>>

\* ------------------------------------------------------------------ values
\* mago_reporting::Level, in increasing order
LevelRank(level) ==
    CASE level = "Help" -> 1
      [] level = "Note" -> 2
      [] level = "Warning" -> 3
      [] level = "Error" -> 4

\* the levels a configuration gives the rules that report in a run
RuleLevels == {"Warning", "Error"}

MkIssue(file, kind, n, level, fixable) ==
    [file |-> file, kind |-> kind, n |-> n, level |-> level, fixable |-> fixable]

\* Into::<Issue>::into(&ParseError)
ParseIssue(file) == MkIssue(file, "parse", 1, "Error", FALSE)

\* semantics.issues of a file with n semantic problems
SemIssues(file, n) == [k \in 1 .. n |-> MkIssue(file, "sem", k, "Error", FALSE)]

\* Semantics::build(&interner, source)
Build(source, parse_error, n) ==
    [source |-> source, parse_error |-> parse_error, issues |-> SemIssues(source, n)]

NoSemantics == [source |-> 0, parse_error |-> FALSE, issues |-> <<>>]

\* reflect(&interner, &semantics.source, &semantics.program, &semantics.names):
\* the fragment of a file declares one symbol every file declares (0) and one
\* of its own
Reflect(sem) == [source |-> sem.source, symbols |-> {0, sem.source}]

NoFragment == [source |-> 0, symbols |-> {}]

\* reflect_all_external_sources: the base codebase
ExternalCodebase ==
    [external |-> TRUE, fragments |-> <<>>, owner |-> {}, conflicts |-> {}, populated |-> FALSE]

\* no codebase yet
EmptyCodebase == [ExternalCodebase EXCEPT !.external = FALSE]

Declared(cb) == {p[1] : p \in cb.owner}

\* mago_reflector::merge: the first declaration of a symbol wins, a later one
\* is recorded as a conflict
Merge(cb, fragment) ==
    [external |-> cb.external,
     fragments |-> Append(cb.fragments, fragment.source),
     owner |-> cb.owner \cup {<<s, fragment.source>> : s \in fragment.symbols \ Declared(cb)},
     conflicts |-> cb.conflicts \cup
                   {<<s, fragment.source>> : s \in fragment.symbols \cap Declared(cb)},
     populated |-> cb.populated]

\* mago_reflector::populate
Populated(cb) == [cb EXCEPT !.populated = TRUE]

NoLinter == [codebase |-> EmptyCodebase, level |-> "Help", live |-> FALSE]

\* linter.lint(&semantic) of a rule set that finds n problems in the file, each
\* with a fix, at the level the settings give the rules
Lint(l, sem, n) == [k \in 1 .. n |-> MkIssue(sem.source, "rule", k, l.level, TRUE)]

NoError == [kind |-> "none", source |-> 0]
MkError(kind, source) == [kind |-> kind, source |-> source]

NoTask == [st |-> "none", job |-> "none", sem |-> NoSemantics, fragment |-> NoFragment,
           issues |-> <<>>, saw |-> EmptyCodebase]

NoReturn == [tag |-> "none", code |-> "none", error |-> NoError]

RECURSIVE Flatten(_)
\* results.into_iter().flatten()
Flatten(rs) == IF rs = <<>> THEN <<>> ELSE Head(rs) \o Flatten(Tail(rs))

\* ------------------------------------------------------------------ helpers
\* a variant: the new handle is put in front
PushHandle_front(hs, id) == <<id>> \o hs

\* handles.push(tokio::spawn(..))
PushHandle(hs, id) == Append(hs, id)

\* a variant: the loop awaits the handle spawned last
NextHandle_last(hs) == hs[Len(hs)]

\* `for handle in handles`: the handle the loop awaits next
NextHandle(hs) == Head(hs)

\* a variant: a parse error counts as a failure of the task
TaskOk_noParseError(task) == task.st = "ok" /\ ~task.sem.parse_error

\* a variant: the result of the task is unwrapped without a look at it
TaskOk_any(task) == TRUE

\* `handle.await??`: the task neither panicked nor returned an Err
TaskOk(task) == task.st = "ok"

\* `handle.await`: the await returns once the task has finished
Finished(task) == task.st \notin {"none", "running"}

\* `handle.await??` on a task that failed: the error of the JoinError (a panic)
\* or of the task's own Err
TaskError(task, id) == MkError(task.st, id)

\* the `?` that leaves execute with an error: the locals are dropped
ReturnErr(e) ==
    /\ pc' = "error"
    /\ ret' = [tag |-> "Err", code |-> "none", error |-> e]
    /\ handles' = <<>>
    /\ semantics' = <<>>
    /\ results' = <<>>

\* ------------------------------------------------------------------ Init
\* no stream is parsed
ParseIdle ==
    /\ tokens = <<>>
    /\ cursor = 0
    /\ ppc = "idle"
    /\ global = 0
    /\ variables = <<>>
    /\ commas = <<>>
    /\ parsed = [tag |-> "none", error |-> "none",
                 node |-> [global |-> 0, variables |-> [nodes |-> <<>>, tokens |-> <<>>],
                           terminator |-> 0]]
    /\ calls = <<>>

\* nothing of a run exists yet
PipeFresh ==
    /\ codebase = EmptyCodebase
    /\ handles = <<>>
    /\ ptask = [i \in 1 .. length |-> NoTask]
    /\ semantics = <<>>
    /\ linter = NoLinter
    /\ ltask = [i \in 1 .. length |-> NoTask]
    /\ results = <<>>
    /\ issues = <<>>
    /\ reported = [done |-> FALSE, fixable_only |-> FALSE, issues |-> <<>>]
    /\ ret = NoReturn
    /\ reflected = {}
    /\ merge_calls = <<>>
    /\ populate_calls = 0
    /\ linted = {}
    /\ overtaken = FALSE

Init ==
    /\ ParseIdle
    /\ semantics_only \in BOOLEAN
    /\ length \in 0 .. MaxSources
    /\ pc = "execute"
    /\ PipeFresh

\* ------------------------------------------------------------------ execute
\* a variant: the two branches are swapped
ModeEntry_swapped(so) == IF so THEN "lint_external" ELSE "check_spawn"

\* `if command.semantics_only { check_sources } else { lint_sources }`
ModeEntry(so) == IF so THEN "check_spawn" ELSE "lint_external"

\* source::load(&interner, &configuration.source, ..).await?
ExecuteLoad ==
    /\ pc = "execute"
    /\ \E ok \in BOOLEAN :
         IF ok
         THEN /\ pc' = ModeEntry(semantics_only)
              /\ UNCHANGED <<ret, handles, semantics, results>>
         ELSE ReturnErr(MkError("load", 0))
    /\ UNCHANGED <<parse_vars, merge_calls, semantics_only, length, codebase, ptask, linter, ltask,
                   issues, reported, reflected, populate_calls, linted, overtaken>>

\* issues.only_fixable()
OnlyFixable(is) == SelectSeq(is, LAMBDA x : x.fixable)

\* a variant: a warning counts as an error
IssuesContainErrors_warning(is) ==
    \E k \in 1 .. Len(is) : LevelRank(is[k].level) >= LevelRank("Warning")

\* issues.get_highest_level().is_some_and(|level| level >= Level::Error)
IssuesContainErrors(is) ==
    \E k \in 1 .. Len(is) : LevelRank(is[k].level) >= LevelRank("Error")

\* Ok(if issues_contain_errors { FAILURE } else { SUCCESS })
ExitCode(is) == IF IssuesContainErrors(is) THEN "FAILURE" ELSE "SUCCESS"

\* what reporter.report is called with
Reported(fixable_only, is) ==
    [done |-> TRUE, fixable_only |-> fixable_only,
     issues |-> IF fixable_only THEN OnlyFixable(is) ELSE is]

\* a variant: the exit code is computed from the issues the reporter is given
Report_filtered ==
    /\ pc = "report"
    /\ \E fixable_only \in BOOLEAN :
         /\ reported' = Reported(fixable_only, issues)
         /\ \E ok \in BOOLEAN :
              IF ok
              THEN /\ pc' = "done"
                   /\ ret' = [tag |-> "Ok", code |-> ExitCode(reported'.issues),
                              error |-> NoError]
                   /\ UNCHANGED <<handles, semantics, results>>
              ELSE ReturnErr(MkError("report", 0))
    /\ UNCHANGED <<parse_vars, merge_calls, semantics_only, length, codebase, ptask, linter,
                   ltask, issues, reflected, populate_calls, linted, overtaken>>

\* the reporter is handed the issues (or the fixable ones, command.fixable_only
\* is read here and nowhere else); its error is returned
Report ==
    /\ pc = "report"
    /\ \E fixable_only \in BOOLEAN : reported' = Reported(fixable_only, issues)
    /\ \E ok \in BOOLEAN :
         IF ok
         THEN /\ pc' = "done"
              /\ ret' = [tag |-> "Ok", code |-> ExitCode(issues), error |-> NoError]
              /\ UNCHANGED <<handles, semantics, results>>
         ELSE ReturnErr(MkError("report", 0))
    /\ UNCHANGED <<parse_vars, merge_calls, semantics_only, length, codebase, ptask, linter, ltask,
                   issues, reflected, populate_calls, linted, overtaken>>

\* ------------------------------------------------------------------ lint_sources
\* let mut codebase = reflect_all_external_sources(interner, manager).await?
LintExternal ==
    /\ pc = "lint_external"
    /\ \E ok \in BOOLEAN :
         IF ok
         THEN /\ codebase' = ExternalCodebase
              /\ pc' = "lint_spawn"
              /\ UNCHANGED <<ret, handles, semantics, results>>
         ELSE /\ ReturnErr(MkError("external", 0))
              /\ UNCHANGED codebase
    /\ UNCHANGED <<parse_vars, merge_calls, semantics_only, length, ptask, linter, ltask,
                   issues, reported, reflected, populate_calls, linted, overtaken>>

\* `for source_id in sources { handles.push(tokio::spawn(..)) }`, one iteration
LintSpawnScan ==
    /\ pc = "lint_spawn"
    /\ Len(handles) < length
    /\ LET id == Len(handles) + 1 IN
         /\ handles' = PushHandle(handles, id)
         /\ ptask' = [ptask EXCEPT ![id].st = "running", ![id].job = "scan"]
    /\ UNCHANGED <<parse_vars, merge_calls, semantics_only, length, pc, codebase, semantics, linter,
                   ltask, results, issues, reported, ret, reflected, populate_calls,
                   linted, overtaken>>

\* the loop is over: let mut semantics = Vec::with_capacity(length)
LintStartJoin ==
    /\ pc = "lint_spawn"
    /\ Len(handles) = length
    /\ semantics' = <<>>
    /\ pc' = "lint_join"
    /\ UNCHANGED <<parse_vars, merge_calls, semantics_only, length, codebase, handles, ptask, linter,
                   ltask, results, issues, reported, ret, reflected, populate_calls,
                   linted, overtaken>>

\* a variant: the task waits for the orchestrator to leave the join loop
LintScanTask_waitsOnJoin(i) ==
    /\ pc # "lint_join"
    /\ ptask[i].st = "running"
    /\ ptask[i].job = "scan"
    /\ \/ \E parse_error \in BOOLEAN, n \in 0 .. MaxIssues :
            LET sem == Build(i, parse_error, n) IN
            /\ ptask' = [ptask EXCEPT ![i].st = "ok", ![i].sem = sem,
                                      ![i].fragment = Reflect(sem)]
            /\ reflected' = reflected \cup {i}
       \/ /\ ptask' = [ptask EXCEPT ![i].st = "io"]
          /\ UNCHANGED reflected
       \/ /\ ptask' = [ptask EXCEPT ![i].st = "panic"]
          /\ UNCHANGED reflected
    /\ overtaken' = (overtaken \/ \E j \in 1 .. (i - 1) : ptask[j].st = "running")
    /\ UNCHANGED <<parse_vars, merge_calls, semantics_only, length, pc, codebase, handles, semantics,
                   linter, ltask, results, issues, reported, ret, populate_calls, linted>>

\* the task of the scanning stage: load, Semantics::build, reflect. The block
\* has no await and shares nothing it writes, so it is one step; what the other
\* tasks and the orchestrator can see of it is whether it has finished.
LintScanTask(i) ==
    /\ ptask[i].st = "running"
    /\ ptask[i].job = "scan"
    /\ \/ \E parse_error \in BOOLEAN, n \in 0 .. MaxIssues :
            LET sem == Build(i, parse_error, n) IN
            /\ ptask' = [ptask EXCEPT ![i].st = "ok", ![i].sem = sem,
                                      ![i].fragment = Reflect(sem)]
            /\ reflected' = reflected \cup {i}
       \/ /\ ptask' = [ptask EXCEPT ![i].st = "io"]
          /\ UNCHANGED reflected
       \/ /\ ptask' = [ptask EXCEPT ![i].st = "panic"]
          /\ UNCHANGED reflected
    /\ overtaken' = (overtaken \/ \E j \in 1 .. (i - 1) : ptask[j].st = "running")
    /\ UNCHANGED <<parse_vars, merge_calls, semantics_only, length, pc, codebase, handles, semantics,
                   linter, ltask, results, issues, reported, ret, populate_calls, linted>>

\* `for handle in handles { let (semantic, reflections) = handle.await??; merge; push }`
LintJoinScan ==
    /\ pc = "lint_join"
    /\ handles # <<>>
    /\ LET id == NextHandle(handles) IN
         /\ Finished(ptask[id])
         /\ IF TaskOk(ptask[id])
            THEN /\ codebase' = Merge(codebase, ptask[id].fragment)
                 /\ merge_calls' = Append(merge_calls, ptask[id].fragment.source)
                 /\ semantics' = Append(semantics, ptask[id].sem)
                 /\ handles' = Tail(handles)
                 /\ UNCHANGED <<pc, ret, results>>
            ELSE /\ ReturnErr(TaskError(ptask[id], id))
                 /\ UNCHANGED <<codebase, merge_calls>>
    /\ UNCHANGED <<parse_vars, semantics_only, length, ptask, linter, ltask, issues,
                   reported, reflected, populate_calls, linted, overtaken>>

\* a variant: populate is left out
LintPopulate_skipped ==
    /\ pc = "lint_join"
    /\ handles = <<>>
    /\ pc' = "lint_create"
    /\ UNCHANGED <<parse_vars, merge_calls, semantics_only, length, codebase, populate_calls, handles, ptask,
                   semantics, linter, ltask, results, issues, reported, ret, reflected,
                   linted, overtaken>>

\* the loop is over: mago_reflector::populate(interner, &mut codebase)
LintPopulate ==
    /\ pc = "lint_join"
    /\ handles = <<>>
    /\ codebase' = Populated(codebase)
    /\ populate_calls' = populate_calls + 1
    /\ pc' = "lint_create"
    /\ UNCHANGED <<parse_vars, merge_calls, semantics_only, length, handles, ptask, semantics, linter,
                   ltask, results, issues, reported, ret, reflected, linted, overtaken>>

\* let linter = create_linter(interner, configuration, codebase): the settings
\* give the rules their level; the codebase moves into the linter
LintCreateLinter ==
    /\ pc = "lint_create"
    /\ \E level \in RuleLevels :
         linter' = [codebase |-> codebase, level |-> level, live |-> TRUE]
    /\ handles' = <<>>
    /\ pc' = "lint_respawn"
    /\ UNCHANGED <<parse_vars, merge_calls, semantics_only, length, codebase, ptask, semantics, ltask,
                   results, issues, reported, ret, reflected, populate_calls, linted,
                   overtaken>>

\* `for semantic in semantics { handles.push(tokio::spawn(..)) }`, one iteration
LintSpawnLint ==
    /\ pc = "lint_respawn"
    /\ semantics # <<>>
    /\ LET id == Len(handles) + 1 IN
         /\ handles' = PushHandle(handles, id)
         /\ ltask' = [ltask EXCEPT ![id] = [NoTask EXCEPT !.st = "running",
                                                         !.job = "lint",
                                                         !.sem = Head(semantics)]]
    /\ semantics' = Tail(semantics)
    /\ UNCHANGED <<parse_vars, merge_calls, semantics_only, length, pc, codebase, ptask, linter,
                   results, issues, reported, ret, reflected, populate_calls, linted,
                   overtaken>>

\* a variant: the parse error is put first
LintIssues_parseFirst(l, sem, n) ==
    (IF sem.parse_error THEN <<ParseIssue(sem.source)>> ELSE <<>>) \o Lint(l, sem, n) \o sem.issues

\* the issues of one file: the rule engine's, the semantic checks', the parse error
LintIssues(l, sem, n) ==
    Lint(l, sem, n) \o sem.issues \o (IF sem.parse_error THEN <<ParseIssue(sem.source)>> ELSE <<>>)

\* the task of the linting stage
LintTask(i) ==
    /\ ltask[i].st = "running"
    /\ \/ \E n \in 0 .. MaxIssues :
            ltask' = [ltask EXCEPT ![i].st = "ok",
                                   ![i].issues = LintIssues(linter, ltask[i].sem, n),
                                   ![i].saw = linter.codebase]
       \/ ltask' = [ltask EXCEPT ![i].st = "panic"]
    /\ linted' = linted \cup {ltask[i].sem.source}
    /\ overtaken' = (overtaken \/ \E j \in 1 .. (i - 1) : ltask[j].st = "running")
    /\ UNCHANGED <<parse_vars, merge_calls, semantics_only, length, pc, codebase, handles, ptask,
                   semantics, linter, results, issues, reported, ret, reflected,
                   populate_calls>>

\* the loop is over: let mut results = Vec::with_capacity(length)
LintStartCollect ==
    /\ pc = "lint_respawn"
    /\ semantics = <<>>
    /\ results' = <<>>
    /\ pc' = "lint_collect"
    /\ UNCHANGED <<parse_vars, merge_calls, semantics_only, length, codebase, handles, ptask,
                   semantics, linter, ltask, issues, reported, ret, reflected,
                   populate_calls, linted, overtaken>>

\* a variant: the result is put in front
PushResult_front(rs, x) == <<x>> \o rs

\* results.push(x)
PushResult(rs, x) == Append(rs, x)

\* `for handle in handles { results.push(handle.await??) }`, one iteration
LintCollect ==
    /\ pc = "lint_collect"
    /\ handles # <<>>
    /\ LET id == NextHandle(handles) IN
         /\ Finished(ltask[id])
         /\ IF TaskOk(ltask[id])
            THEN /\ results' = PushResult(results, ltask[id].issues)
                 /\ handles' = Tail(handles)
                 /\ UNCHANGED <<pc, ret, semantics>>
            ELSE ReturnErr(TaskError(ltask[id], ltask[id].sem.source))
    /\ UNCHANGED <<parse_vars, merge_calls, semantics_only, length, codebase, ptask, linter, ltask,
                   issues, reported, reflected, populate_calls, linted, overtaken>>

\* Ok(IssueCollection::from(results.into_iter().flatten()))
LintReturn ==
    /\ pc = "lint_collect"
    /\ handles = <<>>
    /\ issues' = Flatten(results)
    /\ results' = <<>>
    /\ pc' = "report"
    /\ UNCHANGED <<parse_vars, merge_calls, semantics_only, length, codebase, handles, ptask,
                   semantics, linter, ltask, reported, ret, reflected, populate_calls,
                   linted, overtaken>>

\* ------------------------------------------------------------------ check_sources
\* `for source_id in sources { handles.push(tokio::spawn(..)) }`, one iteration
CheckSpawn ==
    /\ pc = "check_spawn"
    /\ Len(handles) < length
    /\ LET id == Len(handles) + 1 IN
         /\ handles' = PushHandle(handles, id)
         /\ ptask' = [ptask EXCEPT ![id].st = "running", ![id].job = "check"]
    /\ UNCHANGED <<parse_vars, merge_calls, semantics_only, length, pc, codebase, semantics, linter,
                   ltask, results, issues, reported, ret, reflected, populate_calls,
                   linted, overtaken>>

\* the loop is over: let mut results = Vec::with_capacity(length)
CheckStartJoin ==
    /\ pc = "check_spawn"
    /\ Len(handles) = length
    /\ results' = <<>>
    /\ pc' = "check_join"
    /\ UNCHANGED <<parse_vars, merge_calls, semantics_only, length, codebase, handles, ptask,
                   semantics, linter, ltask, issues, reported, ret, reflected,
                   populate_calls, linted, overtaken>>

\* the task of check_sources: load, Semantics::build
CheckScanTask(i) ==
    /\ ptask[i].st = "running"
    /\ ptask[i].job = "check"
    /\ \/ \E parse_error \in BOOLEAN, n \in 0 .. MaxIssues :
            ptask' = [ptask EXCEPT ![i].st = "ok", ![i].sem = Build(i, parse_error, n)]
       \/ ptask' = [ptask EXCEPT ![i].st = "io"]
       \/ ptask' = [ptask EXCEPT ![i].st = "panic"]
    /\ overtaken' = (overtaken \/ \E j \in 1 .. (i - 1) : ptask[j].st = "running")
    /\ UNCHANGED <<parse_vars, merge_calls, semantics_only, length, pc, codebase, handles, semantics,
                   linter, ltask, results, issues, reported, ret, reflected,
                   populate_calls, linted>>

\* the issues of one file: the parse error, then the semantic checks'
CheckIssues(sem) ==
    (IF sem.parse_error THEN <<ParseIssue(sem.source)>> ELSE <<>>) \o sem.issues

\* `for handle in handles { let semantic = handle.await??; push; extend }`
CheckJoin ==
    /\ pc = "check_join"
    /\ handles # <<>>
    /\ LET id == NextHandle(handles) IN
         /\ Finished(ptask[id])
         /\ IF TaskOk(ptask[id])
            THEN /\ results' = results \o CheckIssues(ptask[id].sem)
                 /\ handles' = Tail(handles)
                 /\ UNCHANGED <<pc, ret, semantics>>
            ELSE ReturnErr(TaskError(ptask[id], id))
    /\ UNCHANGED <<parse_vars, merge_calls, semantics_only, length, codebase, ptask, linter, ltask,
                   issues, reported, reflected, populate_calls, linted, overtaken>>

\* Ok(IssueCollection::from(results.into_iter()))
CheckReturn ==
    /\ pc = "check_join"
    /\ handles = <<>>
    /\ issues' = results
    /\ results' = <<>>
    /\ pc' = "report"
    /\ UNCHANGED <<parse_vars, merge_calls, semantics_only, length, codebase, handles, ptask,
                   semantics, linter, ltask, reported, ret, reflected, populate_calls,
                   linted, overtaken>>

\* ------------------------------------------------------------------ Spec
Next ==
    \/ ExecuteLoad
    \/ Report
    \/ LintExternal
    \/ LintSpawnScan
    \/ LintStartJoin
    \/ \E i \in 1 .. length : LintScanTask(i)
    \/ LintJoinScan
    \/ LintPopulate
    \/ LintCreateLinter
    \/ LintSpawnLint
    \/ \E i \in 1 .. length : LintTask(i)
    \/ LintStartCollect
    \/ LintCollect
    \/ LintReturn
    \/ CheckSpawn
    \/ CheckStartJoin
    \/ \E i \in 1 .. length : CheckScanTask(i)
    \/ CheckJoin
    \/ CheckReturn

Spec == Init /\ [][Next]_vars

\* the steps of the orchestrator (execute and the function it awaits)
Orchestrate ==
    \/ ExecuteLoad
    \/ Report
    \/ LintExternal
    \/ LintSpawnScan
    \/ LintStartJoin
    \/ LintJoinScan
    \/ LintPopulate
    \/ LintCreateLinter
    \/ LintSpawnLint
    \/ LintStartCollect
    \/ LintCollect
    \/ LintReturn
    \/ CheckSpawn
    \/ CheckStartJoin
    \/ CheckJoin
    \/ CheckReturn

\* the step of the spawned task of source i, whichever stage spawned it
RunTask(i) ==
    /\ i \in 1 .. length
    /\ (LintScanTask(i) \/ LintTask(i) \/ CheckScanTask(i))

\* the runtime keeps polling the orchestrator and runs every spawned task to its
\* end: a step that stays possible is eventually taken
FairSpec ==
    /\ Init
    /\ [][Next]_vars
    /\ WF_vars(Orchestrate)
    /\ \A i \in 1 .. MaxSources : WF_vars(RunTask(i))

TypeOK ==
    /\ pc \in {"execute", "lint_external", "lint_spawn", "lint_join", "lint_create",
               "lint_respawn", "lint_collect", "check_spawn", "check_join", "report",
               "done", "error"}
    /\ populate_calls \in 0 .. 1

\* ------------------------------------------------------------------ parse_global
\* the kinds of tokens: the keyword, a variable, the `$` of a variable variable,
\* the separator, the two terminators, any other token
TokenKinds == {"global", "$v", "$", ",", ";", "?>", "x"}

Streams == UNION {[1 .. n -> TokenKinds] : n \in 0 .. MaxLen}

NoNode == [global |-> 0, variables |-> [nodes |-> <<>>, tokens |-> <<>>], terminator |-> 0]

NotParsed == [tag |-> "none", error |-> "none", node |-> NoNode]

\* utils::peek(stream): the next token, an error at the end of the input
Peek(ts, c) ==
    IF c < Len(ts)
    THEN [ok |-> TRUE, kind |-> ts[c + 1], error |-> "none"]
    ELSE [ok |-> FALSE, kind |-> "eof", error |-> "UnexpectedEndOfInput"]

\* what a token-consuming function answers: the cursor after it, the token
\* span it covers, its error
Consumed(start, end) == [ok |-> TRUE, cursor |-> end, first |-> start + 1, last |-> end,
                         error |-> "none"]
Failed(c, e) == [ok |-> FALSE, cursor |-> c, first |-> 0, last |-> 0, error |-> e]

\* utils::expect_keyword(stream, T!["global"])
ExpectKeyword(ts, c) ==
    IF ~Peek(ts, c).ok THEN Failed(c, "UnexpectedEndOfInput")
    ELSE IF Peek(ts, c).kind = "global" THEN Consumed(c, c + 1)
    ELSE Failed(c, "UnexpectedToken")

\* utils::expect_any(stream)
ExpectAny(ts, c) ==
    IF Peek(ts, c).ok THEN Consumed(c, c + 1) ELSE Failed(c, "UnexpectedEndOfInput")

RECURSIVE VariableEnd(_, _)
\* parse_variable: where the variable that starts at the cursor ends: a
\* variable token, or `$` and a variable; the negated cursor of the failure
\* otherwise
VariableEnd(ts, c) ==
    IF ~Peek(ts, c).ok THEN -(c + 1)
    ELSE IF Peek(ts, c).kind = "$v" THEN c + 1
    ELSE IF Peek(ts, c).kind = "$" THEN VariableEnd(ts, c + 1)
    ELSE -(c + 1)

\* parse_variable(stream)
ParseVariable(ts, c) ==
    LET end == VariableEnd(ts, c) IN
    IF end > 0 THEN Consumed(c, end)
    ELSE Failed(-end - 1,
                IF -end - 1 < Len(ts) THEN "UnexpectedToken" ELSE "UnexpectedEndOfInput")

\* parse_terminator(stream): `;` or `?>`
ParseTerminator(ts, c) ==
    IF ~Peek(ts, c).ok THEN Failed(c, "UnexpectedEndOfInput")
    ELSE IF Peek(ts, c).kind \in {";", "?>"} THEN Consumed(c, c + 1)
    ELSE Failed(c, "UnexpectedToken")

\* a variant: only `;` ends the list
EndsList_semicolonOnly(kind) == kind = ";"

\* T!["?>" | ";"]: the kinds that end the list
EndsList(kind) == kind \in {"?>", ";"}

\* TokenSeparatedSequence::new(variables, commas)
NewSequence(nodes, separators) == [nodes |-> nodes, tokens |-> separators]

\* the `?` that leaves parse_global with an error
ParseErr(e) ==
    /\ ppc' = "done"
    /\ parsed' = [tag |-> "Err", error |-> e, node |-> NoNode]

ParseInit ==
    /\ tokens \in Streams
    /\ cursor = 0
    /\ ppc = "global"
    /\ global = 0
    /\ variables = <<>>
    /\ commas = <<>>
    /\ parsed = NotParsed
    /\ calls = <<>>
    /\ semantics_only = FALSE
    /\ length = 0
    /\ pc = "idle"
    /\ PipeFresh

\* global: utils::expect_keyword(stream, T!["global"])?
GlobalKeyword ==
    /\ ppc = "global"
    /\ LET r == ExpectKeyword(tokens, cursor) IN
         /\ cursor' = r.cursor
         /\ IF r.ok
            THEN /\ global' = r.first
                 /\ ppc' = "loop"
                 /\ UNCHANGED parsed
            ELSE /\ ParseErr(r.error)
                 /\ UNCHANGED global
    /\ calls' = Append(calls, "expect_keyword")
    /\ UNCHANGED <<pipe_vars, tokens, variables, commas>>

\* a variant: a failed peek is not propagated, the item parser is tried
LoopPeek_sentinel ==
    /\ ppc = "loop"
    /\ LET t == Peek(tokens, cursor) IN
         /\ ppc' = IF t.ok /\ EndsList(t.kind) THEN "terminator" ELSE "variable"
         /\ UNCHANGED parsed
    /\ calls' = Append(calls, "peek")
    /\ UNCHANGED <<pipe_vars, tokens, cursor, global, variables, commas>>

\* if matches!(utils::peek(stream)?.kind, T!["?>" | ";"]) { break; }
LoopPeek ==
    /\ ppc = "loop"
    /\ LET t == Peek(tokens, cursor) IN
         IF ~t.ok THEN ParseErr(t.error)
         ELSE /\ ppc' = IF EndsList(t.kind) THEN "terminator" ELSE "variable"
              /\ UNCHANGED parsed
    /\ calls' = Append(calls, "peek")
    /\ UNCHANGED <<pipe_vars, tokens, cursor, global, variables, commas>>

\* a variant: a failed item is skipped and the loop goes on
LoopVariable_recover ==
    /\ ppc = "variable"
    /\ LET r == ParseVariable(tokens, cursor) IN
         /\ cursor' = r.cursor
         /\ variables' = IF r.ok THEN Append(variables, [first |-> r.first, last |-> r.last])
                         ELSE variables
         /\ ppc' = "separator"
         /\ UNCHANGED parsed
    /\ calls' = Append(calls, "parse_variable")
    /\ UNCHANGED <<pipe_vars, tokens, global, commas>>

\* variables.push(parse_variable(stream)?)
LoopVariable ==
    /\ ppc = "variable"
    /\ LET r == ParseVariable(tokens, cursor) IN
         /\ cursor' = r.cursor
         /\ IF r.ok
            THEN /\ variables' = Append(variables, [first |-> r.first, last |-> r.last])
                 /\ ppc' = "separator"
                 /\ UNCHANGED parsed
            ELSE /\ ParseErr(r.error)
                 /\ UNCHANGED variables
    /\ calls' = Append(calls, "parse_variable")
    /\ UNCHANGED <<pipe_vars, tokens, global, commas>>

\* a variant: the comma is consumed and not recorded
LoopSeparator_unrecorded ==
    /\ ppc = "separator"
    /\ LET t == Peek(tokens, cursor) IN
         IF ~t.ok
         THEN /\ ParseErr(t.error)
              /\ calls' = Append(calls, "peek")
              /\ UNCHANGED <<cursor, commas>>
         ELSE IF t.kind = ","
         THEN LET r == ExpectAny(tokens, cursor) IN
              /\ cursor' = r.cursor
              /\ calls' = calls \o <<"peek", "expect_any">>
              /\ IF r.ok
                 THEN /\ commas' = commas
                      /\ ppc' = "loop"
                      /\ UNCHANGED parsed
                 ELSE /\ ParseErr(r.error)
                      /\ UNCHANGED commas
         ELSE /\ ppc' = "terminator"
              /\ calls' = Append(calls, "peek")
              /\ UNCHANGED <<parsed, cursor, commas>>
    /\ UNCHANGED <<pipe_vars, tokens, global, variables>>

\* a variant: the comma is peeked and left in the stream
LoopSeparator_peekOnly ==
    /\ ppc = "separator"
    /\ LET t == Peek(tokens, cursor) IN
         IF ~t.ok
         THEN /\ ParseErr(t.error)
              /\ calls' = Append(calls, "peek")
              /\ UNCHANGED <<cursor, commas>>
         ELSE IF t.kind = ","
         THEN LET r == Consumed(cursor, cursor) IN
              /\ cursor' = r.cursor
              /\ calls' = calls \o <<"peek">>
              /\ IF r.ok
                 THEN /\ commas' = Append(commas, r.first)
                      /\ ppc' = "loop"
                      /\ UNCHANGED parsed
                 ELSE /\ ParseErr(r.error)
                      /\ UNCHANGED commas
         ELSE /\ ppc' = "terminator"
              /\ calls' = Append(calls, "peek")
              /\ UNCHANGED <<parsed, cursor, commas>>
    /\ UNCHANGED <<pipe_vars, tokens, global, variables>>

\* match utils::peek(stream)?.kind { T![","] => commas.push(expect_any), _ => break }
LoopSeparator ==
    /\ ppc = "separator"
    /\ LET t == Peek(tokens, cursor) IN
         IF ~t.ok
         THEN /\ ParseErr(t.error)
              /\ calls' = Append(calls, "peek")
              /\ UNCHANGED <<cursor, commas>>
         ELSE IF t.kind = ","
         THEN LET r == ExpectAny(tokens, cursor) IN
              /\ cursor' = r.cursor
              /\ calls' = calls \o <<"peek", "expect_any">>
              /\ IF r.ok
                 THEN /\ commas' = Append(commas, r.first)
                      /\ ppc' = "loop"
                      /\ UNCHANGED parsed
                 ELSE /\ ParseErr(r.error)
                      /\ UNCHANGED commas
         ELSE /\ ppc' = "terminator"
              /\ calls' = Append(calls, "peek")
              /\ UNCHANGED <<parsed, cursor, commas>>
    /\ UNCHANGED <<pipe_vars, tokens, global, variables>>

\* TokenSeparatedSequence::new(variables, commas); terminator: parse_terminator(stream)?
GlobalTerminator ==
    /\ ppc = "terminator"
    /\ LET r == ParseTerminator(tokens, cursor) IN
         /\ cursor' = r.cursor
         /\ IF r.ok
            THEN /\ ppc' = "done"
                 /\ parsed' = [tag |-> "Ok", error |-> "none",
                               node |-> [global |-> global,
                                         variables |-> NewSequence(variables, commas),
                                         terminator |-> r.first]]
            ELSE ParseErr(r.error)
    /\ calls' = Append(calls, "parse_terminator")
    /\ UNCHANGED <<pipe_vars, tokens, global, variables, commas>>

ParseNext ==
    \/ GlobalKeyword
    \/ LoopPeek
    \/ LoopVariable
    \/ LoopSeparator
    \/ GlobalTerminator

SpecParse == ParseInit /\ [][ParseNext]_vars

\* parse_global is straight-line code and a loop: it keeps running until it
\* returns
FairSpecParse == ParseInit /\ [][ParseNext]_vars /\ WF_vars(ParseNext)

ParseTypeOK ==
    /\ ppc \in {"global", "loop", "variable", "separator", "terminator", "done"}
    /\ cursor \in 0 .. Len(tokens)

\* ------------------------------------------------------------------ claims
Range(seq) == {seq[k] : k \in 1 .. Len(seq)}

\* the issues of one file in a collection, in the collection's order
FileBlock(is, file) == SelectSeq(is, LAMBDA x : x.file = file)

ScanFailed(i) == ptask[i].st \in {"io", "panic"}
LintFailed(i) == ltask[i].st = "panic"
TaskErrorKinds == {"io", "panic"}

\* lint_sources or check_sources has returned Ok
SourcesReturnedOk == pc \in {"report", "done"} \/ (pc = "error" /\ ret.error.kind = "report")

\* C1: in full-analysis mode every merge and the populate pass are over before
\* the first lint task is spawned, and the codebase is not touched afterwards:
\* whenever a lint task exists, all fragments are merged, populate has run once,
\* and the codebase the linter holds (and a finished lint task saw) is the
\* orchestrator's finished codebase.
LintBarrier ==
    \A i \in 1 .. length :
        ltask[i].st # "none" =>
            /\ populate_calls = 1
            /\ codebase.populated
            /\ Len(merge_calls) = length
            /\ codebase.fragments = merge_calls
            /\ linter.codebase = codebase
            /\ (ltask[i].st = "ok" => ltask[i].saw = codebase)

LintBarrierWitness ==
    /\ length >= 2
    /\ overtaken
    /\ \E i \in 1 .. length : ltask[i].st = "ok"
    /\ \E i \in 1 .. length : ltask[i].st = "running"

\* C2: the issues lint_sources and check_sources return are ordered by the
\* enumeration order of their files, whatever the order the tasks finished in.
OutputInEnumerationOrder ==
    \A p, q \in 1 .. Len(issues) : p < q => issues[p].file <= issues[q].file

OutputInEnumerationOrderWitness ==
    /\ pc = "done"
    /\ ~semantics_only
    /\ overtaken
    /\ \E p, q \in 1 .. Len(issues) : issues[p].file < issues[q].file

\* C3: when the run returns the error of a failed task, no spawned task is
\* still running.
NoOrphanedTasks ==
    (ret.tag = "Err" /\ ret.error.kind \in TaskErrorKinds) =>
        \A i \in 1 .. length : ptask[i].st # "running" /\ ltask[i].st # "running"

MergeInEnumerationOrder ==
    /\ merge_calls = [k \in 1 .. Len(merge_calls) |-> k]
    /\ \A p, q \in 1 .. Len(merge_calls) :
          (merge_calls[p] < merge_calls[q]) <=> (p < q)

MergeInEnumerationOrderWitness ==
    /\ pc = "lint_create"
    /\ overtaken
    /\ Len(merge_calls) >= 2
    /\ ptask[1].fragment.symbols \cap ptask[2].fragment.symbols # {}

\* C8: when the run returns the error of a failed task, the issues computed for
\* the files whose tasks succeeded (and were joined before the failed one) are
\* still part of what the run returns.
PartialResultsKept ==
    (ret.tag = "Err" /\ ret.error.kind \in TaskErrorKinds) =>
        \A i \in 1 .. (ret.error.source - 1) :
            /\ ltask[i].st = "ok" => Range(ltask[i].issues) \subseteq Range(issues)
            /\ (ptask[i].job = "check" /\ ptask[i].st = "ok") =>
                  Range(CheckIssues(ptask[i].sem)) \subseteq Range(issues)

\* C9: once a task of the parse/reflect stage has failed, populate is not
\* called, no lint task is spawned, the reporter is not invoked and execute
\* returns no exit code: the orchestrator is still spawning or joining that
\* stage, or has returned the error.
ScanFailureStopsRun ==
    (\E i \in 1 .. length : ScanFailed(i)) =>
        /\ populate_calls = 0
        /\ ~codebase.populated
        /\ \A j \in 1 .. length : ltask[j].st = "none"
        /\ ~reported.done
        /\ ret.tag # "Ok"
        /\ ret.code = "none"
        /\ pc \in {"lint_spawn", "lint_join", "check_spawn", "check_join", "error"}
        /\ pc = "error" => ret.tag = "Err"

ScanFailureStopsRunWitness ==
    /\ ~semantics_only
    /\ pc = "error"
    /\ ret.error.kind \in TaskErrorKinds
    /\ merge_calls # <<>>
    /\ \E i \in 1 .. length : ScanFailed(i)

\* the parse-error and semantic-check issues of the files
ParseAndSemanticIssues ==
    UNION {Range(ptask[i].sem.issues) \cup
           (IF ptask[i].sem.parse_error THEN {ParseIssue(i)} ELSE {}) : i \in 1 .. length}

\* C10: in semantics-only mode the reflector, merge, populate and the rule
\* engine are never called, and the issues returned are the parse errors and
\* the semantic-check issues of the files, each once and nothing else.
SemanticsOnlySkipsAnalysis ==
    semantics_only =>
        /\ reflected = {}
        /\ linted = {}
        /\ populate_calls = 0
        /\ merge_calls = <<>>
        /\ codebase = EmptyCodebase
        /\ linter = NoLinter
        /\ \A i \in 1 .. length : ltask[i].st = "none"
        /\ SourcesReturnedOk =>
              /\ Range(issues) = ParseAndSemanticIssues
              /\ Len(issues) = Cardinality(ParseAndSemanticIssues)

SemanticsOnlySkipsAnalysisWitness ==
    /\ semantics_only
    /\ pc = "done"
    /\ length >= 2
    /\ \E x \in Range(issues) : x.kind = "parse"
    /\ \E x \in Range(issues) : x.kind = "sem"

\* C5: when parse_global succeeds, the sequence it returns has one separator
\* less than items, none when it has no item.
SeparatorCount ==
    parsed.tag = "Ok" =>
        Len(parsed.node.variables.tokens)
            = (IF Len(parsed.node.variables.nodes) = 0
               THEN 0 ELSE Len(parsed.node.variables.nodes) - 1)

\* C11: when execute returns an exit code, it is SUCCESS if and only if no
\* collected issue is at level Error (the highest level), FAILURE otherwise; no
\* issues give SUCCESS.
ExitCodeBySeverity ==
    pc = "done" =>
        /\ ret.tag = "Ok"
        /\ ret.code \in {"SUCCESS", "FAILURE"}
        /\ (ret.code = "SUCCESS") <=> (\A x \in Range(issues) : x.level # "Error")
        /\ (issues = <<>>) => (ret.code = "SUCCESS")

ExitCodeBySeverityWitness ==
    /\ pc = "done"
    /\ ret.code = "SUCCESS"
    /\ issues # <<>>

\* the stage a failed task's error came from: the linting stage once its tasks
\* exist
StageTask(i) == IF \E j \in 1 .. length : ltask[j].st # "none" THEN ltask[i] ELSE ptask[i]

\* C16: the task error a run returns is the error of the earliest-enumerated
\* failed task of the stage: every task before it succeeded, whatever failed
\* first in time.
EarliestFailureReturned ==
    (ret.tag = "Err" /\ ret.error.kind \in TaskErrorKinds) =>
        /\ ret.error.source \in 1 .. length
        /\ StageTask(ret.error.source).st = ret.error.kind
        /\ \A j \in 1 .. (ret.error.source - 1) : StageTask(j).st = "ok"

EarliestFailureReturnedWitness ==
    /\ ret.tag = "Err"
    /\ overtaken
    /\ length >= 2
    /\ ret.error = MkError("io", 1)
    /\ ptask[2].st = "panic"

\* C17: the exit code is computed from the unfiltered issues, with fixable_only
\* as without: the reporter gets the fixable issues only, the exit code is that
\* of all of them.
ExitCodeIgnoresFilter ==
    pc = "done" =>
        /\ ret.code = (IF \E x \in Range(issues) : x.level = "Error"
                       THEN "FAILURE" ELSE "SUCCESS")
        /\ reported.done
        /\ reported.fixable_only =>
              /\ Range(reported.issues) = {x \in Range(issues) : x.fixable}
              /\ reported.issues = OnlyFixable(issues)

ExitCodeIgnoresFilterWitness ==
    /\ pc = "done"
    /\ reported.fixable_only
    /\ ret.code = "FAILURE"
    /\ reported.issues # <<>>
    /\ \A x \in Range(reported.issues) : x.level # "Error"

\* the kinds of the issues of a sequence, in its order
Kinds(is) == [k \in 1 .. Len(is) |-> is[k].kind]

NonDecreasing(ranks) == \A p, q \in 1 .. Len(ranks) : p < q => ranks[p] <= ranks[q]

LintKindRank(kind) == CASE kind = "rule" -> 1 [] kind = "sem" -> 2 [] kind = "parse" -> 3
CheckKindRank(kind) == CASE kind = "parse" -> 1 [] kind = "sem" -> 2 [] kind = "rule" -> 3

\* C18: in the block of a file, full analysis puts the rule issues first, then
\* the semantic issues, the parse error last; semantics-only mode puts the
\* parse error first and the semantic issues after it.
BlockOrderByMode ==
    SourcesReturnedOk =>
        \A i \in 1 .. length :
            LET block == FileBlock(issues, i)
                kinds == Kinds(block) IN
            IF semantics_only
            THEN /\ NonDecreasing([k \in 1 .. Len(kinds) |-> CheckKindRank(kinds[k])])
                 /\ ptask[i].sem.parse_error => block[1] = ParseIssue(i)
            ELSE /\ NonDecreasing([k \in 1 .. Len(kinds) |-> LintKindRank(kinds[k])])
                 /\ ptask[i].sem.parse_error => block[Len(block)] = ParseIssue(i)

BlockOrderByModeWitness ==
    /\ pc = "done"
    /\ ~semantics_only
    /\ \E i \in 1 .. length :
          /\ ptask[i].sem.parse_error
          /\ Kinds(FileBlock(issues, i)) = <<"rule", "sem", "parse">>

\* C19: with every spawned task run to its end and the orchestrator polled
\* fairly, every run ends: execute returns after the report, or returns an
\* error; the in-order join never waits for ever.
RunTerminates == <>(pc \in {"done", "error"})

RunTerminatesWitness ==
    /\ pc = "done"
    /\ length >= 2
    /\ overtaken
    /\ \A i \in 1 .. length : Finished(ptask[i])

\* `global v1, v2, ..., vn ;`: the keyword, n >= 1 variables with one comma
\* between two of them, the `;`
SimpleList(ts) ==
    /\ Len(ts) >= 3
    /\ Len(ts) % 2 = 1
    /\ ts[1] = "global"
    /\ ts[Len(ts)] = ";"
    /\ \A k \in 2 .. (Len(ts) - 1) : ts[k] = (IF k % 2 = 0 THEN "$v" ELSE ",")

\* C12: for `global v1, ..., vn ;` parse_global returns Ok with the n variables
\* in source order, the n - 1 commas between them, the `;` as terminator, and no
\* error at any point.
SimpleListParsed ==
    SimpleList(tokens) =>
        /\ parsed.tag # "Err"
        /\ ppc = "done" =>
             LET n == (Len(tokens) - 1) \div 2 IN
             /\ parsed.tag = "Ok"
             /\ parsed.error = "none"
             /\ parsed.node.global = 1
             /\ parsed.node.variables.nodes = [k \in 1 .. n |-> [first |-> 2 * k, last |-> 2 * k]]
             /\ parsed.node.variables.tokens = [k \in 1 .. (n - 1) |-> 2 * k + 1]
             /\ parsed.node.terminator = Len(tokens)

SimpleListParsedWitness ==
    /\ ppc = "done"
    /\ tokens = <<"global", "$v", ",", "$v", ";">>
    /\ parsed.tag = "Ok"
    /\ Len(parsed.node.variables.nodes) = 2

TrailingComma == <<"global", "$v", ",">>

\* C13 as stated: for `global $a,` and the end of the input, a second item parse
\* is attempted after the comma and it is the one that fails with
\* UnexpectedEndOfInput.
SecondItemParseFails ==
    (ppc = "done" /\ tokens = TrailingComma) =>
        /\ parsed = [tag |-> "Err", error |-> "UnexpectedEndOfInput", node |-> NoNode]
        /\ Len(SelectSeq(calls, LAMBDA c : c = "parse_variable")) = 2
        /\ calls[Len(calls)] = "parse_variable"

\* C13: for `global $a,` and the end of the input, parse_global returns
\* UnexpectedEndOfInput and no node; the error is that of the peek at the head
\* of the loop, after the comma was consumed, and parse_variable is called once.
TrailingCommaFailsAtPeek ==
    (ppc = "done" /\ tokens = TrailingComma) =>
        /\ parsed = [tag |-> "Err", error |-> "UnexpectedEndOfInput", node |-> NoNode]
        /\ calls = <<"expect_keyword", "peek", "parse_variable", "peek", "expect_any", "peek">>
        /\ commas = <<3>>
        /\ cursor = 3

TrailingCommaFailsAtPeekWitness ==
    /\ ppc = "done"
    /\ tokens = TrailingComma
    /\ parsed.tag = "Err"
    /\ Len(variables) = 1

\* C14: when `;` or `?>` follows the keyword, parse_variable is not called and
\* parse_global returns Ok with no item, no separator, and the terminator.
EmptyListParsed ==
    (ppc = "done" /\ Len(tokens) >= 2 /\ tokens[1] = "global" /\ tokens[2] \in {";", "?>"}) =>
        /\ "parse_variable" \notin Range(calls)
        /\ calls = <<"expect_keyword", "peek", "parse_terminator">>
        /\ parsed.tag = "Ok"
        /\ parsed.node.variables = [nodes |-> <<>>, tokens |-> <<>>]
        /\ parsed.node.terminator = 2

EmptyListParsedWitness ==
    /\ ppc = "done"
    /\ Len(tokens) >= 2
    /\ tokens[1] = "global"
    /\ tokens[2] = "?>"
    /\ parsed.tag = "Ok"

\* a peek of the loop fails, or parse_variable does
LoopFailure ==
    \/ ppc \in {"loop", "separator"} /\ ~Peek(tokens, cursor).ok
    \/ ppc = "variable" /\ ~ParseVariable(tokens, cursor).ok

LoopError ==
    IF ppc = "variable" THEN ParseVariable(tokens, cursor).error ELSE Peek(tokens, cursor).error

\* C15: when parse_variable or a peek fails, parse_global returns that error at
\* once: the cursor stays where the failing call left it, parse_terminator is
\* not called, no node is returned, and nothing runs after the return.
LoopErrorPropagates ==
    [][/\ ppc # "done"
       /\ LoopFailure =>
            /\ ppc' = "done"
            /\ parsed' = [tag |-> "Err", error |-> LoopError, node |-> NoNode]
            /\ cursor' = (IF ppc = "variable" THEN ParseVariable(tokens, cursor).cursor
                          ELSE cursor)
            /\ variables' = variables
            /\ commas' = commas
            /\ "parse_terminator" \notin Range(calls')]_vars

LoopErrorPropagatesWitness ==
    /\ ppc = "done"
    /\ parsed.tag = "Err"
    /\ calls[Len(calls)] = "parse_variable"
    /\ variables # <<>>
    /\ cursor < Len(tokens)

\* one iteration of the loop strictly advances the cursor when it loops again,
\* and no step moves the cursor backwards
CursorAdvances ==
    /\ cursor' >= cursor
    /\ (ppc = "variable" /\ ppc' = "separator") => cursor' > cursor
    /\ (ppc = "separator" /\ ppc' = "loop") => cursor' > cursor
    /\ cursor' <= Len(tokens)

\* C20: parse_global terminates on every finite token stream: the cursor never
\* moves backwards, every iteration that loops again has advanced it, and
\* parse_global eventually returns.
ParseTerminates == [][CursorAdvances]_vars /\ <>(ppc = "done")

ParseTerminatesWitness ==
    /\ ppc = "done"
    /\ Len(commas) >= 2
    /\ cursor = Len(tokens)

====
